---- MODULE Spec2Model ----
(***************************************************************************)
(* mozetl: the taar_locale job (src/mozetl/taar/taar_locale.py) and the    *)
(* topline historical backfill (src/mozetl/topline/historical_backfill.py).*)
(*                                                                         *)
(* The job reads the clients_daily table, counts addon installations per   *)
(* (locale, addon), keeps whitelisted addons, drops small locales, ranks   *)
(* the addons of each locale by their share of the locale's installations  *)
(* and stores the resulting dictionary as JSON.                            *)
(*                                                                         *)
(* A table is a bag (multiset) of rows: a function from the distinct rows  *)
(* to the number of times each occurs.  A dataframe whose rows are unique  *)
(* by construction (the result of a GROUP BY) is a set of rows.            *)
(***************************************************************************)
EXTENDS Integers, Sequences, FiniteSets, Bags, TLC

VARIABLES
    clients_daily,          \* the telemetry table read by get_addons (a bag of client rows)
    amo_whitelist,          \* what load_amo_curated_whitelist returns
    num_addons,             \* --num_addons
    pc,                     \* position of main
    date,                   \* --date of the current invocation
    runs,                   \* number of invocations so far
    addon_df,               \* get_addons(spark)
    addon_df_filtered,      \* addon_df.where(addon_key isin whitelist)
    addon_install_counts,   \* compute_threshold: groupBy(locality).agg(sum)
    quantile,               \* compute_threshold: approxQuantile(...)[0]
    locale_pop_threshold,   \* compute_threshold: the threshold after the safety net
    addon_locale_counts_df, \* compute_threshold's result
    normalized_installs,    \* transform: rows (addon_key, locality, loc_norm)
    locale_dict,            \* transform's result: the dict, in insertion order
    payload,                \* json.dumps(locale_dict, indent=2)
    s3,                     \* the object store: path -> payload, NoObject when absent
    error,                  \* what the current invocation raised, "none" if nothing
    s3_at_start,            \* history: the store when the current invocation began
    n_writes,               \* history: store writes of the current invocation
    prev_run                \* history: result of the latest completed earlier invocation

\* the topline historical backfill (src/mozetl/topline/historical_backfill.py)
VARIABLES
    source_exists,          \* whether there is a csv file at source_s3_path
    source_csv,             \* the rows of that file (a set of rows)
    mode,                   \* the argument mode: weekly or monthly
    batch,                  \* --batch/--no-batch
    overwrite,              \* --overwrite/--no-overwrite
    bf_pc,                  \* position of the backfill's main
    confirm,                \* click.confirm: "not asked", or the user's reply
    spark,                  \* the Spark session: "none", "running" or "stopped"
    historical_df,          \* spark.read.csv(source_s3_path, ...)
    dest,                   \* the destination file system
    bf_error,               \* what the backfill raised, "none" if nothing
    log,                    \* the logging.info messages, in order
    parquet_path,           \* history: the path given to writer.parquet, <<>> if not called
    n_stops,                \* history: calls of spark.stop()
    dest_before             \* history: the destination file system when main began

taar == <<clients_daily, amo_whitelist, num_addons, pc, date, runs, addon_df,
          addon_df_filtered, addon_install_counts, quantile, locale_pop_threshold,
          addon_locale_counts_df, normalized_installs, locale_dict, payload, s3,
          error, s3_at_start, n_writes, prev_run>>

backfill == <<source_exists, source_csv, mode, batch, overwrite, bf_pc, confirm, spark,
              historical_df, dest, bf_error, log, parquet_path, n_stops, dest_before>>

vars == <<taar, backfill>>

----------------------------------------------------------------------------
(* Bounds of the model. *)

\* each kind of client row of a pipeline table occurs 0..MaxUnits times Unit
MaxUnits == 2
\* --num_addons ranges over 1..MaxK
MaxK == 2
\* the job is invoked at most MaxRuns times
MaxRuns == 2
\* a row of an extractor table occurs 1..MaxCopies times
MaxCopies == 2

----------------------------------------------------------------------------
(* Values. *)

\* the 2000 installations of compute_threshold's safety net
MinInstalls == 2000

\* the scale of the pipeline tables: half the safety net
Unit == MinInstalls \div 2

LOCALE_FILE_NAME == "top10_dict"

\* the defaults of --bucket and --prefix
DefaultBucket == "telemetry-private-analysis-2"

DefaultPrefix == "taar/locale/"

\* SQL NULL, as distinct from the string 'null'
NULL == "<SQL NULL>"

Locales == {"de", "fr"}

Addons == {"a", "b", "c"}

\* the dates whose objects the store may hold, and the --date the job is run for
Dates == {"20190101", "20190102"}

RunDates == {"20190102"}

\* what the store holds at a path without an object (no payload is this sequence)
NoObject == <<<<"absent">>>>

\* prev_run when no earlier invocation has completed
NoResult == [quantile |-> 0, locale_dict |-> <<>>, date |-> "none"]

----------------------------------------------------------------------------
(* Helpers. *)

RECURSIVE SumOf(_, _)
\* the sum of f[x] over the x of S
SumOf(f, S) ==
    IF S = {} THEN 0
    ELSE LET x == CHOOSE y \in S : TRUE
         IN  f[x] + SumOf(f, S \ {x})

RECURSIVE Gcd(_, _)
Gcd(m, n) == IF n = 0 THEN m ELSE Gcd(n, m % n)

\* the sequences that list every element of the finite set S exactly once
Orderings(S) ==
    {s \in [1..Cardinality(S) -> S] : \A i, j \in 1..Cardinality(S) : s[i] = s[j] => i = j}

----------------------------------------------------------------------------
(* SQL's three-valued logic, as the WHERE clauses of get_addons use it. *)

\* NULL is a value of the string columns; the tables of the model hold no NULL in a
\* boolean or integer column, and SqlEqValue compares those.
SqlEq(x, y) == IF x = NULL \/ y = NULL THEN "unknown" ELSE IF x = y THEN "true" ELSE "false"

SqlEqValue(x, y) == IF x = y THEN "true" ELSE "false"

SqlNe(x, y) == IF x = NULL \/ y = NULL THEN "unknown" ELSE IF x # y THEN "true" ELSE "false"

SqlIsNotNull(x) == IF x = NULL THEN "false" ELSE "true"

\* a conjunction of conditions: false if one is false, else unknown if one is unknown
SqlAnd(conds) ==
    IF \E i \in 1..Len(conds) : conds[i] = "false" THEN "false"
    ELSE IF \E i \in 1..Len(conds) : conds[i] = "unknown" THEN "unknown"
    ELSE "true"

----------------------------------------------------------------------------
(* get_addons: the extractor. *)

\* A WHERE clause keeps the rows of a table on which its condition is true, each as
\* many times as the table holds it.

\* WITH sample AS (SELECT client_id, locale AS locality, EXPLODE(active_addons)
\*                 FROM clients_daily WHERE channel='release' AND app_name='Firefox')
\* One row per element of active_addons; a row of sample is (locality, col), and the
\* client_id is what tells the copies of a row apart.
SampleWhere(c) == SqlAnd(<<SqlEq(c.channel, "release"), SqlEq(c.app_name, "Firefox")>>)

Sample(t) ==
    LET kept == [c \in {x \in DOMAIN t : SampleWhere(x) = "true"} |-> t[c]]
        Exploded(c) == {[locality |-> c.locale, col |-> c.active_addons[i]] :
                            i \in 1..Len(c.active_addons)}
        rows == UNION {Exploded(c) : c \in DOMAIN kept}
        Times(c, r) == Cardinality({i \in 1..Len(c.active_addons) :
                                        c.active_addons[i] = r.col})
        n == [r \in rows |->
                SumOf([c \in DOMAIN kept |->
                          IF c.locale = r.locality THEN kept[c] * Times(c, r) ELSE 0],
                      DOMAIN kept)]
    IN  [r \in rows |-> n[r]]

\* the conditions of filtered_sample without col.is_system = FALSE
FilteredSampleWhereSystem(r) ==
    SqlAnd(<<SqlEqValue(r.col.blocklisted, FALSE),
             SqlEq(r.col.type, "extension"),
             SqlEqValue(r.col.signed_state, 2),
             SqlEqValue(r.col.user_disabled, FALSE),
             SqlEqValue(r.col.app_disabled, FALSE),
             SqlNe(r.locality, "null"),
             SqlIsNotNull(r.col.addon_id)>>)

\* filtered_sample AS (SELECT locality, col.addon_id AS addon_key FROM sample WHERE ...)
FilteredSampleWhere(r) ==
    SqlAnd(<<SqlEqValue(r.col.blocklisted, FALSE),
             SqlEq(r.col.type, "extension"),
             SqlEqValue(r.col.signed_state, 2),
             SqlEqValue(r.col.user_disabled, FALSE),
             SqlEqValue(r.col.app_disabled, FALSE),
             SqlEqValue(r.col.is_system, FALSE),
             SqlNe(r.locality, "null"),
             SqlIsNotNull(r.col.addon_id)>>)

FilteredSample(t) ==
    LET sample == Sample(t)
        kept == [r \in {x \in DOMAIN sample : FilteredSampleWhere(x) = "true"} |-> sample[r]]
        rows == {[locality |-> r.locality, addon_key |-> r.col.addon_id] : r \in DOMAIN kept}
        n == [x \in rows |->
                SumOf([r \in DOMAIN kept |->
                          IF r.locality = x.locality /\ r.col.addon_id = x.addon_key
                          THEN kept[r] ELSE 0],
                      DOMAIN kept)]
    IN  [x \in rows |-> n[x]]

\* the columns of the GROUP BY of country_addon_pairs
GroupByKey(x) == <<x.locality, x.addon_key>>

\* country_addon_pairs AS (SELECT COUNT(*) AS pair_cnts, addon_key, locality
\*                         FROM filtered_sample GROUP BY locality, addon_key)
\* One row per group; a group is the rows of filtered_sample with the same key.
CountryAddonPairs(t) ==
    LET fs == FilteredSample(t)
        groups == {GroupByKey(x) : x \in DOMAIN fs}
        Members(g) == {x \in DOMAIN fs : GroupByKey(x) = g}
        First(g) == CHOOSE x \in Members(g) : TRUE
    IN  {[pair_cnts |-> SumOf(fs, Members(g)),
          addon_key |-> First(g).addon_key,
          locality  |-> First(g).locality] : g \in groups}

\* get_addons(spark): the rows (pair_cnts, addon_key, locality).  The ORDER BY of the
\* final SELECT only arranges the rows; no later stage depends on the arrangement
\* (transform orders each locale again), and the dataframe is kept as a set of rows.
get_addons(t) == CountryAddonPairs(t)

----------------------------------------------------------------------------
(* The tables the model reads. *)

\* an element of active_addons that passes every condition of filtered_sample
GoodAddon(a) ==
    [addon_id |-> a, blocklisted |-> FALSE, type |-> "extension", signed_state |-> 2,
     user_disabled |-> FALSE, app_disabled |-> FALSE, is_system |-> FALSE]

\* a Firefox release client of locale l with the addons of the sequence as
Client(l, as) ==
    [channel |-> "release", app_name |-> "Firefox", locale |-> l, active_addons |-> as]

AddonStructs ==
    [addon_id : {"a", NULL}, blocklisted : BOOLEAN, type : {"extension", "theme"},
     signed_state : {2, 1}, user_disabled : BOOLEAN, app_disabled : BOOLEAN,
     is_system : BOOLEAN]

\* the tables of the extractor's specification: any client with one addon record of
\* any kind, alone or followed by a good record of "a" or of "b", 1..MaxCopies times,
\* with or without one more good client of locale "de" holding "a"
ExtractClients ==
    [channel : {"release", "beta"}, app_name : {"Firefox", "Fennec"},
     locale : {"de", "null", NULL},
     active_addons : {<<>>} \cup {<<x>> : x \in AddonStructs}
                     \cup {<<x, GoodAddon(b)>> : x \in AddonStructs, b \in {"a", "b"}}]

ExtractTables ==
    {SetToBag(ref) (+) [c \in {probe} |-> n] :
        probe \in ExtractClients, n \in 1..MaxCopies,
        ref \in {{}, {Client("de", <<GoodAddon("a")>>)}}}

\* the tables of the pipeline's specification: good clients with one addon each; up
\* to three addons are installed in locale "de" and one in locale "fr", and each
\* (locale, addon) has 0..MaxUnits times Unit clients
Cells == {<<"de", "a">>, <<"de", "b">>, <<"de", "c">>, <<"fr", "a">>}

PipelineTables ==
    {[c \in {Client(x[1], <<GoodAddon(x[2])>>) : x \in {y \in Cells : f[y] > 0}}
        |-> f[<<c.locale, c.active_addons[1].addon_id>>] * Unit] :
        f \in [Cells -> 0..MaxUnits]}

----------------------------------------------------------------------------
(* compute_threshold. *)

\* addon_df.groupBy("locality").agg({"pair_cnts": "sum"})
InstallCounts(df) ==
    {[locality |-> l,
      sum_pair_cnts |-> SumOf([r \in df |-> IF r.locality = l THEN r.pair_cnts ELSE 0], df)] :
        l \in {r.locality : r \in df}}

\* approxQuantile("sum(pair_cnts)", [0.25], 0.2)[0]: an estimate of the 25th
\* percentile, which is one of the values of the column; which one depends on the
\* engine's summary of the column.  An empty column has no estimate and the
\* expression raises.
ApproxQuantile(counts) == {r.sum_pair_cnts : r \in counts}

\* if locale_pop_threshold < 2000: locale_pop_threshold = 2000
SafetyNet(q) == IF q < MinInstalls THEN MinInstalls ELSE q

\* the filter with > in place of >=
FilterLocalesStrict(counts, threshold) == {r \in counts : r.sum_pair_cnts > threshold}

\* addon_install_counts.filter(col("sum(pair_cnts)") >= locale_pop_threshold)
FilterLocales(counts, threshold) == {r \in counts : r.sum_pair_cnts >= threshold}

----------------------------------------------------------------------------
(* transform. *)

\* addon_df.join(df1, df2.locality == df1.locality).drop(df1.locality)
Join(df, counts) ==
    {[pair_cnts |-> x[1].pair_cnts, addon_key |-> x[1].addon_key,
      locality |-> x[1].locality, sum_pair_cnts |-> x[2].sum_pair_cnts] :
        x \in {y \in df \X counts : y[1].locality = y[2].locality}}

\* float(p["pair_cnts"]) / float(p["sum(pair_cnts)"]).  The quotient of two counts is
\* kept as the fraction in lowest terms <<numerator, denominator>>: two quotients of
\* counts are the same float exactly when they are the same fraction, and compare as
\* the fractions do.
normalize_cnts(p) ==
    LET g == Gcd(p.pair_cnts, p.sum_pair_cnts)
    IN  <<p.pair_cnts \div g, p.sum_pair_cnts \div g>>

\* x < y on two loc_norm values
Less(x, y) == x[1] * y[2] < y[1] * x[2]

\* combined_df.rdd.map(lambda p: Row(addon_key, locality, loc_norm))
Normalize(combined) ==
    {[addon_key |-> p.addon_key, locality |-> p.locality, loc_norm |-> normalize_cnts(p)] :
        p \in combined}

\* the window without its orderBy
WindowOrdersUnordered(part) == Orderings(part)

\* Window.partitionBy(locality).orderBy(desc("loc_norm")): the orders the window may
\* give the rows of one partition; rows of equal loc_norm come in any order
WindowOrders(part) ==
    {s \in Orderings(part) :
        \A i, j \in 1..Len(s) : i < j => ~Less(s[i].loc_norm, s[j].loc_norm)}

RECURSIVE DenseRank(_, _)
\* dense_rank() in place of rank()
DenseRank(s, i) ==
    IF i = 1 THEN 1
    ELSE IF s[i].loc_norm = s[i - 1].loc_norm THEN DenseRank(s, i - 1)
    ELSE DenseRank(s, i - 1) + 1

RECURSIVE Rank(_, _)
\* rank().over(window) of the i-th row of the ordered partition s: the position of
\* the first row of its run of equal loc_norm
Rank(s, i) ==
    IF i = 1 THEN 1
    ELSE IF s[i].loc_norm = s[i - 1].loc_norm THEN Rank(s, i - 1)
    ELSE i

RECURSIVE Truncate(_, _, _)
\* .filter(col("rank") <= num_addons).drop(col("rank")), on the first i rows of s
Truncate(s, i, k) ==
    IF i = 0 THEN <<>>
    ELSE IF Rank(s, i) <= k THEN Append(Truncate(s, i - 1, k), s[i])
    ELSE Truncate(s, i - 1, k)

\* [[x["addon_key"], x["loc_norm"]] for x in truncated_df.filter(locality == l).collect()]
Collect(s) == [i \in 1..Len(s) |-> <<s[i].addon_key, s[i].loc_norm>>]

----------------------------------------------------------------------------
(* json.dumps(locale_dict, indent=2): the text, as its sequence of tokens.  *)
(* <<"nl", n>> is a line break followed by n spaces.                        *)

RECURSIVE JoinItems(_, _)
\* the items (token sequences), each on a line of its own at the given indent,
\* separated by commas
JoinItems(items, indent) ==
    IF Len(items) = 0 THEN <<>>
    ELSE LET n == Len(items)
         IN  JoinItems(SubSeq(items, 1, n - 1), indent)
             \o (IF n > 1 THEN <<<<"punct", ",">>>> ELSE <<>>)
             \o <<<<"nl", indent>>>> \o items[n]

DumpsArray(items, indent) ==
    IF Len(items) = 0 THEN <<<<"punct", "[]">>>>
    ELSE <<<<"punct", "[">>>> \o JoinItems(items, indent + 2)
         \o <<<<"nl", indent>>, <<"punct", "]">>>>

DumpsEntry(e, indent) ==
    DumpsArray(<<<<<<"string", e[1]>>>>, <<<<"number", e[2][1], e[2][2]>>>>>>, indent)

DumpsMember(m, indent) ==
    <<<<"string", m.key>>, <<"punct", ": ">>>>
    \o DumpsArray([i \in 1..Len(m.value) |-> DumpsEntry(m.value[i], indent + 2)], indent)

json_dumps(d) ==
    IF Len(d) = 0 THEN <<<<"punct", "{}">>>>
    ELSE <<<<"punct", "{">>>>
         \o JoinItems([i \in 1..Len(d) |-> DumpsMember(d[i], 2)], 2)
         \o <<<<"nl", 0>>, <<"punct", "}">>>>

----------------------------------------------------------------------------
(* store_json_to_s3. *)

\* the dated path of the job's object
ObjectPath(base_filename, d, prefix, bucket) == <<bucket, prefix, d, base_filename>>

Paths == {ObjectPath(LOCALE_FILE_NAME, d, DefaultPrefix, DefaultBucket) : d \in Dates}

\* an object an earlier day's job left in the store
OldPayload == json_dumps(<<[key |-> "en-US", value |-> <<<<"a", <<1, 1>>>>>>]>>)

\* the stores the job may find: empty, or with older objects at the paths
InitialStores == {[p \in Paths |-> NoObject], [p \in Paths |-> OldPayload]}

\* the store after the payload is written at the path: the object there is replaced
StoreJson(store, path, json_data) == [store EXCEPT ![path] = json_data]

----------------------------------------------------------------------------
(* generate_dictionary and main, step by step. *)

\* the where() left out
WhereNothing(df, whitelist) == df

\* addon_df.where(col("addon_key").isin(amo_whitelist))
WhereIsin(df, whitelist) == {r \in df : r.addon_key \in whitelist}

\* the state of a process that has not computed anything yet
Fresh ==
    /\ addon_df = {}
    /\ addon_df_filtered = {}
    /\ addon_install_counts = {}
    /\ quantile = 0
    /\ locale_pop_threshold = 0
    /\ addon_locale_counts_df = {}
    /\ normalized_installs = {}
    /\ locale_dict = <<>>
    /\ payload = <<>>
    /\ error = "none"
    /\ n_writes = 0

\* compute_threshold(addon_df) in place of compute_threshold(addon_df_filtered)
ThresholdInputUnfiltered == addon_df

\* the dataframe generate_dictionary hands to compute_threshold
ThresholdInput == addon_df_filtered

\* transform(addon_df, ...) in place of transform(addon_df_filtered, ...)
TransformInputUnfiltered == addon_df

\* the dataframe generate_dictionary hands to transform
TransformInput == addon_df_filtered

\* a new process starts with nothing computed
StartFresh ==
    /\ addon_df' = {}
    /\ addon_df_filtered' = {}
    /\ addon_install_counts' = {}
    /\ quantile' = 0
    /\ locale_pop_threshold' = 0
    /\ addon_locale_counts_df' = {}
    /\ normalized_installs' = {}
    /\ locale_dict' = <<>>
    /\ payload' = <<>>
    /\ error' = "none"
    /\ n_writes' = 0

inputs == <<clients_daily, amo_whitelist, num_addons>>

history == <<s3_at_start, n_writes, prev_run>>

\* main catches the exception and goes on to store what it has
RaiseAndStore(e) ==
    /\ pc' = "store"
    /\ error' = e

\* an exception leaves main: the process ends, nothing after the raising call runs
Raise(e) ==
    /\ pc' = "raised"
    /\ error' = e

\* the backfill is another program: while the taar_locale job runs it has not begun
BackfillNotStarted ==
    /\ source_exists = FALSE
    /\ source_csv = {}
    /\ mode = "weekly"
    /\ batch = FALSE
    /\ overwrite = FALSE
    /\ bf_pc = "not started"
    /\ confirm = "not asked"
    /\ spark = "none"
    /\ historical_df = {}
    /\ dest = [dirs |-> {}, parts |-> <<>>]
    /\ bf_error = "none"
    /\ log = <<>>
    /\ parquet_path = <<>>
    /\ n_stops = 0
    /\ dest_before = dest

Init ==
    /\ BackfillNotStarted
    /\ clients_daily \in PipelineTables
    /\ amo_whitelist \in SUBSET Addons
    /\ num_addons \in 1..MaxK
    /\ pc = "idle"
    /\ date = "none"
    /\ runs = 0
    /\ Fresh
    /\ s3 \in InitialStores
    /\ s3_at_start = s3
    /\ prev_run = NoResult

\* the job is started: main(date, bucket, prefix, num_addons) with the default bucket
\* and prefix; what an earlier process computed is gone, the store is not
Invoke(d) ==
    /\ pc \in {"idle", "done", "raised"}
    /\ runs < MaxRuns
    /\ pc' = "get_addons"
    /\ date' = d
    /\ runs' = runs + 1
    /\ StartFresh
    /\ s3_at_start' = s3
    /\ prev_run' = IF pc = "done"
                   THEN [quantile |-> quantile, locale_dict |-> locale_dict, date |-> date]
                   ELSE prev_run
    /\ UNCHANGED <<backfill, inputs, s3>>

\* addon_df = get_addons(spark)
GetAddons ==
    /\ pc = "get_addons"
    /\ addon_df' = get_addons(clients_daily)
    /\ pc' = "where"
    /\ UNCHANGED <<backfill, inputs, date, runs, addon_df_filtered, addon_install_counts, quantile,
                   locale_pop_threshold, addon_locale_counts_df, normalized_installs,
                   locale_dict, payload, s3, error, history>>

\* amo_whitelist = load_amo_curated_whitelist()
\* addon_df_filtered = addon_df.where(col("addon_key").isin(amo_whitelist))
Where ==
    /\ pc = "where"
    /\ addon_df_filtered' = WhereIsin(addon_df, amo_whitelist)
    /\ pc' = "compute_threshold"
    /\ UNCHANGED <<backfill, inputs, date, runs, addon_df, addon_install_counts, quantile,
                   locale_pop_threshold, addon_locale_counts_df, normalized_installs,
                   locale_dict, payload, s3, error, history>>

\* addon_locale_counts_df = compute_threshold(addon_df_filtered)
ComputeThreshold ==
    /\ pc = "compute_threshold"
    /\ addon_install_counts' = InstallCounts(ThresholdInput)
    /\ IF ApproxQuantile(addon_install_counts') = {}
       THEN /\ Raise("approxQuantile: empty column")
            /\ UNCHANGED <<quantile, locale_pop_threshold, addon_locale_counts_df>>
       ELSE /\ \E q \in ApproxQuantile(addon_install_counts') :
                 /\ quantile' = q
                 /\ locale_pop_threshold' = SafetyNet(q)
                 /\ addon_locale_counts_df' =
                        FilterLocales(addon_install_counts', SafetyNet(q))
            /\ pc' = "transform"
            /\ UNCHANGED error
    /\ UNCHANGED <<backfill, inputs, date, runs, addon_df, addon_df_filtered, normalized_installs,
                   locale_dict, payload, s3, history>>

\* the dict transform builds from the ordered partitions w (locality -> its rows in
\* window order) and the order list_of_locales in which the localities are collected
TopPerLocale(w, list_of_locales, k) ==
    [i \in 1..Len(list_of_locales) |->
        [key   |-> list_of_locales[i],
         value |-> Collect(Truncate(w[list_of_locales[i]], Len(w[list_of_locales[i]]), k))]]

\* return transform(addon_df_filtered, addon_locale_counts_df, num_addons)
\* toDF() infers the schema from the first row of the RDD and raises ValueError("RDD
\* is empty") when the join has no row.
Transform ==
    /\ pc = "transform"
    /\ LET combined_df == Join(TransformInput, addon_locale_counts_df)
           normalized == Normalize(combined_df)
           localities == {r.locality : r \in normalized_installs'}
           Partition(l) == {r \in normalized_installs' : r.locality = l}
       IN  IF combined_df = {}
           THEN /\ Raise("toDF: RDD is empty")
                /\ UNCHANGED <<normalized_installs, locale_dict>>
           ELSE /\ normalized_installs' = normalized
                /\ \E w \in [localities -> UNION {WindowOrders(Partition(l)) : l \in localities}] :
                      /\ \A l \in localities : w[l] \in WindowOrders(Partition(l))
                      /\ \E list_of_locales \in
                            Orderings({l \in localities :
                                          Truncate(w[l], Len(w[l]), num_addons) # <<>>}) :
                            locale_dict' = TopPerLocale(w, list_of_locales, num_addons)
                /\ pc' = "dumps"
                /\ UNCHANGED error
    /\ UNCHANGED <<backfill, inputs, date, runs, addon_df, addon_df_filtered, addon_install_counts,
                   quantile, locale_pop_threshold, addon_locale_counts_df, payload, s3,
                   history>>

\* json.dumps(locale_dict, indent=2)
Dumps ==
    /\ pc = "dumps"
    /\ payload' = json_dumps(locale_dict)
    /\ pc' = "store"
    /\ UNCHANGED <<backfill, inputs, date, runs, addon_df, addon_df_filtered, addon_install_counts,
                   quantile, locale_pop_threshold, addon_locale_counts_df,
                   normalized_installs, locale_dict, s3, error, history>>

\* main leaves an object that is already there alone
StoreIfAbsent ==
    /\ pc = "store"
    /\ s3' = IF s3[ObjectPath(LOCALE_FILE_NAME, date, DefaultPrefix, DefaultBucket)] = NoObject
             THEN StoreJson(s3, ObjectPath(LOCALE_FILE_NAME, date, DefaultPrefix, DefaultBucket),
                            payload)
             ELSE s3
    /\ n_writes' = n_writes + 1
    /\ pc' = "stop"
    /\ UNCHANGED <<backfill, inputs, date, runs, addon_df, addon_df_filtered, addon_install_counts,
                   quantile, locale_pop_threshold, addon_locale_counts_df,
                   normalized_installs, locale_dict, payload, error, s3_at_start, prev_run>>

\* store_json_to_s3(payload, LOCALE_FILE_NAME, date, prefix, bucket)
Store ==
    /\ pc = "store"
    /\ s3' = StoreJson(s3, ObjectPath(LOCALE_FILE_NAME, date, DefaultPrefix, DefaultBucket),
                       payload)
    /\ n_writes' = n_writes + 1
    /\ pc' = "stop"
    /\ UNCHANGED <<backfill, inputs, date, runs, addon_df, addon_df_filtered, addon_install_counts,
                   quantile, locale_pop_threshold, addon_locale_counts_df,
                   normalized_installs, locale_dict, payload, error, s3_at_start, prev_run>>

\* spark.stop()
Stop ==
    /\ pc = "stop"
    /\ pc' = "done"
    /\ UNCHANGED <<backfill, inputs, date, runs, addon_df, addon_df_filtered, addon_install_counts,
                   quantile, locale_pop_threshold, addon_locale_counts_df,
                   normalized_installs, locale_dict, payload, s3, error, history>>

Next ==
    \/ \E d \in RunDates : Invoke(d)
    \/ GetAddons
    \/ Where
    \/ ComputeThreshold
    \/ Transform
    \/ Dumps
    \/ Store
    \/ Stop

Spec == Init /\ [][Next]_vars

----------------------------------------------------------------------------
(* The extractor alone, on tables with rows of every kind. *)

InitExtract ==
    /\ BackfillNotStarted
    /\ clients_daily \in ExtractTables
    /\ amo_whitelist = Addons
    /\ num_addons = 1
    /\ pc = "get_addons"
    /\ date = "none"
    /\ runs = 1
    /\ Fresh
    /\ s3 = [p \in Paths |-> NoObject]
    /\ s3_at_start = s3
    /\ prev_run = NoResult

NextExtract == GetAddons

SpecExtract == InitExtract /\ [][NextExtract]_vars

----------------------------------------------------------------------------
(* The topline historical backfill: main reads the csv file of one summary  *)
(* period and backfill_topline_summary writes it as parquet under            *)
(* s3://<bucket>/<prefix>/mode=<mode>.                                        *)
(*                                                                          *)
(* A path is the sequence of its components; the components "mode=<m>" and   *)
(* "report_start=<v>" are the pairs <<"mode", m>> and <<"report_start", v>>. *)

\* the csv file has at most MaxCsvRows rows
MaxCsvRows == 2

Geos == {"all", "US"}

Channels == {"all", "release"}

Oses == {"all", "Linux"}

\* the dates of the csv rows, as <<year, month, day>>
CsvDates == {<<2017, 1, 1>>, <<2017, 1, 8>>}

\* click.Choice(['weekly', 'monthly'])
Modes == {"weekly", "monthly"}

\* the argument bucket
Bucket == "net-mozaws-prod-us-west-2-pipeline-analysis"

\* the default of --prefix: topline_summary/v1
ToplinePrefix == <<"topline_summary", "v1">>

\* the rows a csv file may hold: the columns of historical_schema that the backfill
\* looks at
HistoricalRows == [geo : Geos, channel : Channels, os : Oses, date : CsvDates]

HistoricalTables == {t \in SUBSET HistoricalRows : Cardinality(t) <= MaxCsvRows}

\* F.date_format('date', 'yyyyMMdd'): four digits of year, two of month, two of day,
\* read as one number
date_format(d) == d[1] * 10000 + d[2] * 100 + d[3]

ReportStarts == {date_format(d) : d \in CsvDates}

\* "s3://{}/{}".format(bucket, prefix)
format_output_path(bucket, prefix) == <<"s3:", bucket>> \o prefix

\* format_output_path(bucket, '{}/mode={}'.format(prefix, mode))
OutputPath(m) == format_output_path(Bucket, ToplinePrefix \o <<<<"mode", m>>>>)

\* "{}/report_start={}".format(path, report_start)
PartitionPath(path, v) == path \o <<<<"report_start", v>>>>

\* the directory a partition directory lies in
Parent(path) == SubSeq(path, 1, Len(path) - 1)

BasePaths == {OutputPath(m) : m \in Modes}

PartitionPaths == {PartitionPath(b, v) : b \in BasePaths, v \in ReportStarts}

\* what the file system holds at a partition path without a directory (no data is
\* this set of rows)
NoDir == {[geo |-> "<no such directory>", channel |-> "", os |-> "", report_start |-> 0]}

\* the rows an earlier job left in the partition report_start=v
OldData(v) == {[geo |-> "DE", channel |-> "release", os |-> "Windows", report_start |-> v]}

\* the destination before the backfill: the partitions of the report_start values
\* in present hold old data, under both modes; dirs are the directories mode=<m>
\* that exist
DestWith(present) ==
    [dirs  |-> IF present = {} THEN {} ELSE BasePaths,
     parts |-> [p \in PartitionPaths |->
                   IF p[Len(p)][2] \in present THEN OldData(p[Len(p)][2]) ELSE NoDir]]

InitialDests == {DestWith(present) : present \in SUBSET ReportStarts}

\* .where((geo != 'all') & (os != 'all') & (channel != 'all'))
WhereNotAll(df) == {r \in df : r.geo # "all" /\ r.os # "all" /\ r.channel # "all"}

\* .withColumn('report_start', date_format('date', 'yyyyMMdd')) and the select of the
\* fields of topline_schema, each cast to its type: report_start is one of them
\* (line 71 reads it from a row of the result)
Select(df) ==
    {[geo |-> r.geo, channel |-> r.channel, os |-> r.os,
      report_start |-> date_format(r.date)] : r \in df}

\* "overwrite" for every value of --overwrite
write_mode_overwrite == "overwrite"

\* write_mode = "overwrite" if overwrite else "error"
write_mode == IF overwrite THEN "overwrite" ELSE "error"

\* whether the file system d has something at path
PathExists(d, path) ==
    IF Len(path) = Len(OutputPath("weekly"))
    THEN path \in d.dirs
    ELSE d.parts[path] # NoDir

\* the file system after df.write.partitionBy('report_start').parquet(path) has
\* written: what was under path is gone, each report_start value of df has its
\* directory
PartitionedWrite(d, path, df) ==
    [dirs  |-> d.dirs \cup {path},
     parts |-> [p \in PartitionPaths |->
                   IF Parent(p) # path THEN d.parts[p]
                   ELSE IF \E r \in df : r.report_start = p[Len(p)][2]
                        THEN {r \in df : r.report_start = p[Len(p)][2]}
                        ELSE NoDir]]

\* the file system after df.write.parquet(path) has written to the partition
\* directory path
PlainWrite(d, path, df) ==
    [dirs  |-> d.dirs \cup {Parent(path)},
     parts |-> [d.parts EXCEPT ![path] = df]]

\* writer.parquet(path): mode "error" raises when path exists and writes nothing,
\* mode "overwrite" deletes what is at path first
Parquet(d, path, partitioned, save_mode, df) ==
    IF save_mode = "error" /\ PathExists(d, path)
    THEN [raised |-> TRUE, dest |-> d]
    ELSE [raised |-> FALSE,
          dest   |-> IF partitioned THEN PartitionedWrite(d, path, df)
                     ELSE PlainWrite(d, path, df)]

\* overwrite alone asks for the confirmation
NeedsConfirmOverwrite == overwrite

\* if batch and overwrite
NeedsConfirm == batch /\ overwrite

\* the exception is not followed by the finally clause
RaiseNoFinally(e) ==
    /\ bf_error' = e
    /\ bf_pc' = "raised"

\* backfill_topline_summary raises inside main's try: the finally clause is next
RaiseInTry(e) ==
    /\ bf_error' = e
    /\ bf_pc' = "finally"

\* backfill_topline_summary returns inside main's try: the finally clause is next
ReturnInTry ==
    /\ bf_error' = bf_error
    /\ bf_pc' = "finally"

\* the taar_locale job is another program: while the backfill runs it has not begun
TaarNotStarted ==
    /\ clients_daily = EmptyBag
    /\ amo_whitelist = {}
    /\ num_addons = 1
    /\ pc = "idle"
    /\ date = "none"
    /\ runs = 0
    /\ Fresh
    /\ s3 = [p \in Paths |-> NoObject]
    /\ s3_at_start = s3
    /\ prev_run = NoResult

arguments == <<source_exists, source_csv, mode, batch, overwrite>>

InitBackfill ==
    /\ TaarNotStarted
    /\ source_exists \in BOOLEAN
    /\ source_csv \in IF source_exists THEN HistoricalTables ELSE {{}}
    /\ mode \in Modes
    /\ batch \in BOOLEAN
    /\ overwrite \in BOOLEAN
    /\ bf_pc = "main"
    /\ confirm = "not asked"
    /\ spark = "none"
    /\ historical_df = {}
    /\ dest \in InitialDests
    /\ bf_error = "none"
    /\ log = <<>>
    /\ parquet_path = <<>>
    /\ n_stops = 0
    /\ dest_before = dest

\* if batch and overwrite: click.confirm('CAUTION: ...', abort=True)
\* A reply other than yes raises click.Abort, which ends the command.
Confirm ==
    /\ bf_pc = "main"
    /\ IF NeedsConfirm
       THEN \E reply \in {"yes", "no"} :
               /\ confirm' = reply
               /\ bf_pc' = IF reply = "yes" THEN "getOrCreate" ELSE "aborted"
       ELSE /\ confirm' = confirm
            /\ bf_pc' = "getOrCreate"
    /\ UNCHANGED <<taar, arguments, spark, historical_df, dest, bf_error, log,
                   parquet_path, n_stops, dest_before>>

\* spark = SparkSession.builder.appName(...).getOrCreate()
\* logging.info("Running historical backfill for {} executive report at {}.")
GetOrCreate ==
    /\ bf_pc = "getOrCreate"
    /\ spark' = "running"
    /\ log' = Append(log, "Running historical backfill")
    /\ bf_pc' = "read_csv"
    /\ UNCHANGED <<taar, arguments, confirm, historical_df, dest, bf_error, parquet_path,
                   n_stops, dest_before>>

\* historical_df = spark.read.csv(source_s3_path, schema=historical_schema, header=True)
\* read.csv resolves the path at once and raises AnalysisException when there is
\* nothing at it; the statement is before main's try.
ReadCsv ==
    /\ bf_pc = "read_csv"
    /\ IF source_exists
       THEN /\ historical_df' = source_csv
            /\ bf_pc' = "backfill"
            /\ UNCHANGED bf_error
       ELSE /\ bf_error' = "AnalysisException: Path does not exist"
            /\ bf_pc' = "raised"
            /\ UNCHANGED historical_df
    /\ UNCHANGED <<taar, arguments, confirm, spark, dest, log, parquet_path, n_stops,
                   dest_before>>

\* try: backfill_topline_summary(historical_df, output_path, batch, overwrite)
\* df.head() is the first row of df, any of its rows, and None when df has no row:
\* None has no attribute report_start.
BackfillToplineSummary ==
    /\ bf_pc = "backfill"
    /\ log' = Append(log, "Saving historical data")
    /\ LET df == Select(WhereNotAll(historical_df))
           path == OutputPath(mode)
       IN  IF batch
           THEN LET written == Parquet(dest, path, TRUE, write_mode, df)
                IN  /\ parquet_path' = path
                    /\ dest' = written.dest
                    /\ IF written.raised
                       THEN RaiseInTry("AnalysisException: path already exists")
                       ELSE ReturnInTry
           ELSE IF df = {}
           THEN /\ RaiseInTry("AttributeError: 'NoneType' object has no attribute 'report_start'")
                /\ UNCHANGED <<parquet_path, dest>>
           ELSE \E head \in df :
                   IF Cardinality({r.report_start : r \in df}) # 1
                   THEN /\ RaiseInTry("RuntimeError: There should only be a single reporting date")
                        /\ UNCHANGED <<parquet_path, dest>>
                   ELSE LET written == Parquet(dest, PartitionPath(path, head.report_start),
                                               FALSE, write_mode, df)
                        IN  /\ parquet_path' = PartitionPath(path, head.report_start)
                            /\ dest' = written.dest
                            /\ IF written.raised
                               THEN RaiseInTry("AnalysisException: path already exists")
                               ELSE ReturnInTry
    /\ UNCHANGED <<taar, arguments, confirm, spark, historical_df, n_stops, dest_before>>

\* finally: spark.stop(); an exception of the try goes on after it
SparkStop ==
    /\ bf_pc = "finally"
    /\ spark' = "stopped"
    /\ n_stops' = n_stops + 1
    /\ bf_pc' = IF bf_error = "none" THEN "log_finished" ELSE "raised"
    /\ UNCHANGED <<taar, arguments, confirm, historical_df, dest, bf_error, log,
                   parquet_path, dest_before>>

\* logging.info("Finished historical backfill job.")
LogFinished ==
    /\ bf_pc = "log_finished"
    /\ log' = Append(log, "Finished historical backfill job")
    /\ bf_pc' = "finished"
    /\ UNCHANGED <<taar, arguments, confirm, spark, historical_df, dest, bf_error,
                   parquet_path, n_stops, dest_before>>

NextBackfill ==
    \/ Confirm
    \/ GetOrCreate
    \/ ReadCsv
    \/ BackfillToplineSummary
    \/ SparkStop
    \/ LogFinished

SpecBackfill == InitBackfill /\ [][NextBackfill]_vars

\* once main has passed the confirmation the Python process runs each statement
\* to its end and goes on to the next; the reply to the confirmation is the
\* user's and may never come
SpecBackfillFair ==
    SpecBackfill /\ WF_vars(GetOrCreate \/ ReadCsv \/ BackfillToplineSummary \/ SparkStop \/ LogFinished)

----------------------------------------------------------------------------
(* What the claims speak of. *)

\* transform has returned its dictionary
Transformed == pc \in {"dumps", "store", "stop", "done"}

\* the keys of a dict
Keys(d) == {d[i].key : i \in 1..Len(d)}

\* the (locale, addon, score) triples of a dict
EntriesOf(d) ==
    UNION {{<<d[i].key, d[i].value[j][1], d[i].value[j][2]>> : j \in 1..Len(d[i].value)} :
              i \in 1..Len(d)}

\* the rows of normalized_installs as (locale, addon, score) triples
Triples(rows) == {<<r.locality, r.addon_key, r.loc_norm>> : r \in rows}

\* the localities of a dataframe
LocalitiesOf(df) == {r.locality : r \in df}

\* the sum of the pair counts of locality l in the dataframe df
GroupTotal(df, l) == SumOf([r \in df |-> IF r.locality = l THEN r.pair_cnts ELSE 0], df)

\* max(2000, the percentile estimate)
EffectiveThreshold == IF quantile > MinInstalls THEN quantile ELSE MinInstalls

\* the rows of r's locality that score strictly more than r
Above(r) ==
    {q \in normalized_installs : q.locality = r.locality /\ Less(r.loc_norm, q.loc_norm)}

\* 1, 2, 3, ... without gaps after ties
DenseRankOf(r) == 1 + Cardinality({q.loc_norm : q \in Above(r)})

\* 1 + the number of rows that score strictly more: ties share a rank, the next rank
\* skips as many as were tied
CompetitionRankOf(r) == 1 + Cardinality(Above(r))

----------------------------------------------------------------------------
(* C1.  Every locale of the returned dictionary has at most num_addons entries,  *)
(* ties at the last position included.  The code keeps every row of rank <=     *)
(* num_addons, and rows of equal score share a rank.                             *)
C1_AtMostKEntries ==
    Transformed =>
        \A i \in 1..Len(locale_dict) : Len(locale_dict[i].value) <= num_addons

(* C2.  A locale is in the returned dictionary only if its total is at least    *)
(* max(2000, percentile estimate): a locale below 2000 or below the estimate is  *)
(* absent, and a locale whose total equals the threshold is present.             *)
C2_ThresholdAdmission ==
    Transformed =>
        \A l \in LocalitiesOf(addon_df_filtered) :
            LET total == GroupTotal(addon_df_filtered, l)
            IN  /\ l \in Keys(locale_dict) => total >= EffectiveThreshold
                /\ total < MinInstalls => l \notin Keys(locale_dict)
                /\ total < quantile => l \notin Keys(locale_dict)
                /\ total = EffectiveThreshold => l \in Keys(locale_dict)

\* a locale of at least 2000 installations is left out for being below the
\* estimate, and a locale exactly at the threshold is in the dictionary
C2_Witness ==
    /\ Transformed
    /\ \E l \in LocalitiesOf(addon_df_filtered) :
          /\ GroupTotal(addon_df_filtered, l) >= MinInstalls
          /\ GroupTotal(addon_df_filtered, l) < quantile
          /\ l \notin Keys(locale_dict)
    /\ \E l \in Keys(locale_dict) : GroupTotal(addon_df_filtered, l) = EffectiveThreshold

(* C3.  Every addon of the returned dictionary is in the whitelist.              *)
C3_OnlyWhitelisted ==
    Transformed => \A e \in EntriesOf(locale_dict) : e[2] \in amo_whitelist

\* a locale of the dictionary has an installed addon that is not whitelisted
C3_Witness ==
    /\ Transformed
    /\ \E r \in addon_df : r.addon_key \notin amo_whitelist /\ r.locality \in Keys(locale_dict)

(* C4.  The entries of every locale of the returned dictionary are in            *)
(* non-increasing order of score.                                                *)
C4_SortedDescending ==
    Transformed =>
        \A i \in 1..Len(locale_dict) :
            \A j, k \in 1..Len(locale_dict[i].value) :
                j < k => ~Less(locale_dict[i].value[j][2], locale_dict[i].value[k][2])

\* a locale of the dictionary lists two entries of different scores
C4_Witness ==
    /\ Transformed
    /\ \E i \in 1..Len(locale_dict) :
          \E j, k \in 1..Len(locale_dict[i].value) :
              Less(locale_dict[i].value[k][2], locale_dict[i].value[j][2])

(* C5, as claimed.  The entries kept for a locale are exactly the rows whose     *)
(* dense rank by score descending is <= num_addons.                              *)
C5_DenseRankKept ==
    Transformed =>
        EntriesOf(locale_dict) =
            Triples({r \in normalized_installs : DenseRankOf(r) <= num_addons})

(* C5, amended.  The entries kept for a locale are exactly the rows whose rank   *)
(* is <= num_addons, the rank of a row being 1 + the number of rows of its       *)
(* locale that score strictly more.                                              *)
C5_RankKept ==
    Transformed =>
        EntriesOf(locale_dict) =
            Triples({r \in normalized_installs : CompetitionRankOf(r) <= num_addons})

\* a row is dropped although its dense rank is within num_addons
C5_Witness ==
    /\ Transformed
    /\ \E r \in normalized_installs :
          /\ DenseRankOf(r) <= num_addons
          /\ CompetitionRankOf(r) > num_addons
          /\ <<r.locality, r.addon_key, r.loc_norm>> \notin EntriesOf(locale_dict)

----------------------------------------------------------------------------
\* the pair count of (l, a) in the dataframe df, 0 when it has no such row
PairCount(df, l, a) ==
    SumOf([r \in df |-> IF r.locality = l /\ r.addon_key = a THEN r.pair_cnts ELSE 0], df)

\* the rows of the whitelisted addons
Whitelisted(df) == {r \in df : r.addon_key \in amo_whitelist}

\* the path of the current invocation's object
CurrentPath == ObjectPath(LOCALE_FILE_NAME, date, DefaultPrefix, DefaultBucket)

(* C6, as claimed.  The total that admits a locale and divides its pair counts   *)
(* is the sum of all the pair counts the extractor gives for the locale; the     *)
(* whitelist is applied afterwards.                                              *)
C6_TotalOfAllPairCounts ==
    Transformed =>
        /\ \A e \in EntriesOf(locale_dict) :
              e[3][1] * GroupTotal(addon_df, e[1]) = e[3][2] * PairCount(addon_df, e[1], e[2])
        /\ \A l \in LocalitiesOf(Whitelisted(addon_df)) :
              l \in Keys(locale_dict) <=> GroupTotal(addon_df, l) >= EffectiveThreshold

(* C6, amended.  The whitelist is applied to the extractor's pair counts first:  *)
(* the total that admits a locale and divides its pair counts is the sum of the  *)
(* pair counts of the locale's whitelisted addons, the percentile estimate is    *)
(* taken over those totals, and each score is pair_count / that total.           *)
C6_TotalOfWhitelistedPairCounts ==
    Transformed =>
        /\ \A e \in EntriesOf(locale_dict) :
              /\ PairCount(addon_df, e[1], e[2]) > 0
              /\ e[3][1] * GroupTotal(Whitelisted(addon_df), e[1])
                    = e[3][2] * PairCount(addon_df, e[1], e[2])
        /\ \A l \in LocalitiesOf(Whitelisted(addon_df)) :
              l \in Keys(locale_dict)
                  <=> GroupTotal(Whitelisted(addon_df), l) >= EffectiveThreshold
        /\ \E l \in LocalitiesOf(Whitelisted(addon_df)) :
              quantile = GroupTotal(Whitelisted(addon_df), l)

\* a locale of the dictionary has installations of an addon that is not
\* whitelisted: its two totals differ
C6_Witness ==
    /\ Transformed
    /\ \E e \in EntriesOf(locale_dict) :
          GroupTotal(addon_df, e[1]) > GroupTotal(Whitelisted(addon_df), e[1])

(* C7.  When there are locales and every one of them has fewer than 2000         *)
(* installations, the job ends without raising, its dictionary is empty and the  *)
(* empty dictionary is what it writes.  The code raises in transform instead.    *)
C7_EmptyOutputNotError ==
    (/\ pc \in {"raised", "done"}
     /\ LocalitiesOf(Whitelisted(addon_df)) # {}
     /\ \A l \in LocalitiesOf(addon_df) : GroupTotal(addon_df, l) < MinInstalls)
    => (/\ pc = "done"
        /\ locale_dict = <<>>
        /\ s3[CurrentPath] = json_dumps(<<>>))

----------------------------------------------------------------------------
(* The extractor's counts, from the table. *)

\* the conditions the claim lists, on the record x of the client c
ListedConditions(c, x) ==
    /\ c.channel = "release"
    /\ x.blocklisted = FALSE
    /\ x.type = "extension"
    /\ x.signed_state = 2
    /\ x.user_disabled = FALSE
    /\ x.app_disabled = FALSE
    /\ x.is_system = FALSE
    /\ c.locale # NULL
    /\ x.addon_id # NULL

\* the number of exploded records of (l, a) in clients_daily that satisfy the listed
\* conditions
ListedCount(l, a) ==
    SumOf([c \in DOMAIN clients_daily |->
              clients_daily[c]
              * Cardinality({i \in 1..Len(c.active_addons) :
                    /\ ListedConditions(c, c.active_addons[i])
                    /\ c.locale = l
                    /\ c.active_addons[i].addon_id = a})],
          DOMAIN clients_daily)

\* the same, of Firefox clients whose locale is not the string 'null' either
FirefoxCount(l, a) ==
    SumOf([c \in DOMAIN clients_daily |->
              clients_daily[c]
              * Cardinality({i \in 1..Len(c.active_addons) :
                    /\ ListedConditions(c, c.active_addons[i])
                    /\ c.app_name = "Firefox"
                    /\ c.locale # "null"
                    /\ c.locale = l
                    /\ c.active_addons[i].addon_id = a})],
          DOMAIN clients_daily)

\* get_addons has returned
Extracted == pc = "where"

\* no two rows of the dataframe have the same (locality, addon_key), and no row
\* counts nothing
UniquePairs(df) ==
    /\ \A r, q \in df : r.locality = q.locality /\ r.addon_key = q.addon_key => r = q
    /\ \A r \in df : r.pair_cnts > 0

(* C8, as claimed.  The pair count of (locale, addon) is the number of exploded  *)
(* records that satisfy the listed conditions (release channel, not blocklisted, *)
(* extension, signed_state 2, not user-disabled, not app-disabled, not system,   *)
(* non-null locale, non-null addon id), and each pair has at most one row.       *)
C8_CountsListedConditions ==
    Extracted =>
        /\ UniquePairs(addon_df)
        /\ \A l \in {"de", "null", NULL}, a \in {"a", "b", NULL} :
              PairCount(addon_df, l, a) = ListedCount(l, a)

(* C8, amended.  The pair count of (locale, addon) is the number of exploded     *)
(* records of Firefox clients that satisfy the listed conditions and whose       *)
(* locale is not the string 'null'; each pair has at most one row.               *)
C8_CountsFirefoxConditions ==
    Extracted =>
        /\ UniquePairs(addon_df)
        /\ \A l \in {"de", "null", NULL}, a \in {"a", "b", NULL} :
              PairCount(addon_df, l, a) = FirefoxCount(l, a)

\* a pair is counted over several records while another record of the table fails
\* a condition and is counted nowhere
C8_Witness ==
    /\ Extracted
    /\ \E r \in addon_df : r.pair_cnts >= 3
    /\ \E c \in DOMAIN clients_daily :
          \E i \in 1..Len(c.active_addons) :
              /\ c.active_addons[i].is_system
              /\ PairCount(addon_df, c.locale, c.active_addons[i].addon_id) < 3

----------------------------------------------------------------------------
(* C9.  An invocation writes to the store at most once, and only once every      *)
(* stage (extraction, whitelist filter, threshold, transform, serialization) has *)
(* completed; when a stage raises, the store is as it was when the invocation    *)
(* began.                                                                        *)
C9_WriteOnceAfterAllStages ==
    /\ n_writes <= 1
    /\ pc \notin {"stop", "done"} => n_writes = 0 /\ s3 = s3_at_start
    /\ error # "none" => pc = "raised" /\ n_writes = 0 /\ s3 = s3_at_start
    /\ n_writes = 1 =>
          /\ Transformed
          /\ payload = json_dumps(locale_dict)
          /\ s3[CurrentPath] = payload
          /\ \A p \in Paths \ {CurrentPath} : s3[p] = s3_at_start[p]

\* transform has raised after the earlier stages ran, and the object that was at the
\* path is still there
C9_Witness ==
    /\ pc = "raised"
    /\ error = "toDF: RDD is empty"
    /\ addon_df_filtered # {}
    /\ s3[CurrentPath] = OldPayload

\* the dict as a mapping from its keys to their lists
AsMapping(d) == [l \in Keys(d) |-> d[CHOOSE i \in 1..Len(d) : d[i].key = l].value]

(* C10, as claimed.  After a completed run the object at the dated path is that  *)
(* run's payload, and a run that follows a completed run of the same inputs and  *)
(* date produces the same mapping.                                               *)
C10_RerunSameMapping ==
    pc = "done" =>
        /\ s3[CurrentPath] = payload
        /\ prev_run.date # "none" /\ prev_run.date = date =>
              AsMapping(locale_dict) = AsMapping(prev_run.locale_dict)

(* C10, amended.  After a completed run the object at the dated path is exactly  *)
(* the serialization of that run's dictionary, whatever was there before, and no *)
(* other path changes; a run that follows a completed run of the same inputs and *)
(* date and gets the same percentile estimate produces the same locales with the *)
(* same set of [addon, score] entries each.                                      *)
C10_RerunOverwrites ==
    pc = "done" =>
        /\ s3[CurrentPath] = json_dumps(locale_dict)
        /\ \A p \in Paths \ {CurrentPath} : s3[p] = s3_at_start[p]
        /\ prev_run.date # "none" /\ prev_run.date = date /\ prev_run.quantile = quantile =>
              /\ Keys(locale_dict) = Keys(prev_run.locale_dict)
              /\ EntriesOf(locale_dict) = EntriesOf(prev_run.locale_dict)

\* a second run has replaced the first run's object by a payload that differs from
\* it in the order of two entries of equal score
C10_Witness ==
    /\ pc = "done"
    /\ prev_run.date # "none"
    /\ prev_run.date = date
    /\ prev_run.quantile = quantile
    /\ s3_at_start[CurrentPath] = json_dumps(prev_run.locale_dict)
    /\ s3_at_start[CurrentPath] # s3[CurrentPath]
    /\ AsMapping(locale_dict) # AsMapping(prev_run.locale_dict)

RECURSIVE ScoreSum(_)
\* the sum of the loc_norm values of the rows, as a fraction <<numerator, denominator>>
ScoreSum(rows) ==
    IF rows = {} THEN <<0, 1>>
    ELSE LET r == CHOOSE x \in rows : TRUE
             rest == ScoreSum(rows \ {r})
         IN  <<r.loc_norm[1] * rest[2] + rest[1] * r.loc_norm[2], r.loc_norm[2] * rest[2]>>

\* the rows of locality l that transform has scored, before the rank filter
ScoredRows(l) == {r \in normalized_installs : r.locality = l}

\* transform has just returned: normalized_installs holds the rows it scored and
\* nothing has run since
TransformReturned == pc = "dumps"

(* C11.  For every admitted locale the scores of all its rows before truncation  *)
(* sum to at most 1: the scored pair counts never sum to more than the total     *)
(* they are divided by, and every single score is above 0 and at most 1.         *)
C11_ScoresSumAtMostOne ==
    TransformReturned =>
        \A l \in LocalitiesOf(normalized_installs) :
            LET total == ScoreSum(ScoredRows(l))
                scored == {r \in addon_df_filtered :
                             /\ r.locality = l
                             /\ \E q \in ScoredRows(l) : q.addon_key = r.addon_key}
            IN  /\ total[1] <= total[2]
                /\ \A c \in addon_locale_counts_df :
                       c.locality = l => GroupTotal(scored, l) <= c.sum_pair_cnts
                /\ \A r \in ScoredRows(l) :
                       /\ 0 < r.loc_norm[1]
                       /\ r.loc_norm[1] <= r.loc_norm[2]

\* an admitted locale has three scored rows of which the dictionary keeps fewer,
\* and a locale is scored whose only row has the score 1
C11_Witness ==
    /\ TransformReturned
    /\ \E l \in LocalitiesOf(normalized_installs) :
          /\ Cardinality(ScoredRows(l)) = 3
          /\ \E i \in 1..Len(locale_dict) :
                /\ locale_dict[i].key = l
                /\ Len(locale_dict[i].value) < 3
    /\ \E r \in normalized_installs : r.loc_norm = <<1, 1>>

----------------------------------------------------------------------------
(* The historical backfill. *)

\* backfill_topline_summary has returned or raised
BackfillCalled == bf_pc \in {"finally", "log_finished", "finished"} \/ spark = "stopped"

\* the filtered input with its report_start column
FilteredInput == Select(WhereNotAll(historical_df))

\* the distinct report_start values of the filtered input
DistinctReportStarts == {r.report_start : r \in FilteredInput}

(* C12.  Without --batch, backfill_topline_summary calls parquet only when the   *)
(* filtered input has exactly one distinct report_start value, and then with the *)
(* path <path>/report_start=<that value>; whenever the number of distinct values *)
(* is not 1, no row at all included, it raises RuntimeError('There should only   *)
(* be a single reporting date') and writes nothing.  The code reads              *)
(* df.head().report_start before it counts, so an input without rows raises      *)
(* AttributeError.                                                               *)
C12_SingleDateOrRuntimeError ==
    BackfillCalled /\ ~batch =>
        /\ parquet_path # <<>> =>
              /\ Cardinality(DistinctReportStarts) = 1
              /\ \A v \in DistinctReportStarts :
                    parquet_path = PartitionPath(OutputPath(mode), v)
        /\ Cardinality(DistinctReportStarts) # 1 =>
              /\ bf_error = "RuntimeError: There should only be a single reporting date"
              /\ parquet_path = <<>>
              /\ dest = dest_before

\* the rows the file system d holds at or under path
DataAt(d, path) ==
    UNION {d.parts[p] : p \in {q \in PartitionPaths :
                                  /\ q = path \/ Parent(q) = path
                                  /\ d.parts[q] # NoDir}}

(* C13.  backfill_topline_summary never replaces existing data unless overwrite  *)
(* is true.  Without --overwrite the write mode is "error": every partition that *)
(* held data keeps it, and a write to a path that exists fails and leaves the    *)
(* file system as it was.  With --overwrite the write mode is "overwrite": the   *)
(* write succeeds and what the destination path then holds is the input.         *)
C13_ReplacesOnlyWithOverwrite ==
    /\ ~overwrite =>
          /\ write_mode = "error"
          /\ \A p \in PartitionPaths :
                dest_before.parts[p] # NoDir => dest.parts[p] = dest_before.parts[p]
          /\ parquet_path # <<>> /\ PathExists(dest_before, parquet_path) =>
                /\ bf_error = "AnalysisException: path already exists"
                /\ dest = dest_before
    /\ overwrite =>
          /\ write_mode = "overwrite"
          /\ parquet_path # <<>> =>
                /\ bf_error = "none"
                /\ DataAt(dest, parquet_path) = FilteredInput

\* a run without --overwrite has tried to write rows to a path that held other
\* data and has failed
C13_Witness ==
    /\ ~overwrite
    /\ bf_pc = "raised"
    /\ parquet_path # <<>>
    /\ PathExists(dest_before, parquet_path)
    /\ FilteredInput # {}
    /\ DataAt(dest_before, parquet_path) # FilteredInput
    /\ bf_error = "AnalysisException: path already exists"

(* C14.  With both --batch and --overwrite the confirmation is asked before      *)
(* anything else happens, and a user who declines ends the command with no Spark *)
(* session created, no input read, nothing logged and nothing written; with any   *)
(* other combination of the flags no confirmation is asked.                      *)
C14_ConfirmFirstOnlyBatchOverwrite ==
    /\ confirm # "not asked" => batch /\ overwrite
    /\ batch /\ overwrite /\ bf_pc # "main" => confirm # "not asked"
    /\ batch /\ overwrite /\ confirm # "yes" =>
          /\ spark = "none"
          /\ historical_df = {}
          /\ log = <<>>
          /\ parquet_path = <<>>
          /\ dest = dest_before
          /\ n_stops = 0
    /\ confirm = "no" => bf_pc = "aborted"
    /\ bf_pc = "aborted" => confirm = "no"

\* the user has declined the confirmation of a run with --batch and --overwrite
\* whose csv file has rows to write over a destination that holds data
C14_Witness ==
    /\ batch
    /\ overwrite
    /\ confirm = "no"
    /\ bf_pc = "aborted"
    /\ Select(WhereNotAll(source_csv)) # {}
    /\ dest.dirs # {}

\* whether main has logged the message
Logged(message) == \E i \in 1..Len(log) : log[i] = message

\* main has ended: it has returned, or an exception has left it
MainEnded == bf_pc \in {"finished", "raised"}

(* C15.  Once the Spark session has been created spark.stop() is executed        *)
(* exactly once on every path, and "Finished historical backfill job" is logged  *)
(* only when the backfill did not raise.  A run that has ended with the session  *)
(* created has stopped it once.                                                  *)
C15_StopOnceSessionCreated ==
    /\ n_stops <= 1
    /\ MainEnded /\ spark # "none" => n_stops = 1
    /\ Logged("Finished historical backfill job") => bf_error = "none"

(* C15, amended.  Once backfill_topline_summary has been called, spark.stop() is *)
(* eventually executed, and exactly once, whether the call returns or raises,    *)
(* and "Finished historical backfill job" is logged only when nothing was        *)
(* raised; spark.read.csv is before the try, and a run that ends there has not   *)
(* stopped its session.                                                          *)
C15_StopOnceBackfillCalled ==
    /\ [](n_stops <= 1)
    /\ [](MainEnded /\ Logged("Saving historical data") => n_stops = 1)
    /\ [](MainEnded /\ ~Logged("Saving historical data") /\ spark # "none" => n_stops = 0)
    /\ (bf_pc = "backfill") ~> (n_stops = 1 /\ spark = "stopped")
    /\ [](Logged("Finished historical backfill job") => bf_error = "none")

\* backfill_topline_summary has raised the RuntimeError of the single date and
\* main has ended with the session stopped once and no message of the end
C15_Witness ==
    /\ bf_pc = "raised"
    /\ bf_error = "RuntimeError: There should only be a single reporting date"
    /\ n_stops = 1
    /\ spark = "stopped"
    /\ ~Logged("Finished historical backfill job")

====
